---- MODULE Spec2Model ----
(***************************************************************************)
(* Model of the HSIE EntryPoint utterance structurer                       *)
(* (hsie/entrypoint/services/asr_result_structurer.py).                    *)
(*                                                                         *)
(* Times are integers counting hundredths of a second (0.7 s = 70,         *)
(* 2.0 s = 200).  A text is a sequence of characters; each kana is written *)
(* as one romanised token ("te" is the character U+3066) and " " is a      *)
(* whitespace character, the only kind str.strip() removes here.           *)
(***************************************************************************)
EXTENDS Integers, Sequences, FiniteSets, TLC

\* ------------------------------------------------------------------ bounds

\* Longest segment list handed to structure().
MaxSegs == 3

\* Largest gap (hundredths of a second) handed to the pause classifier.
MaxGap == 210

\* --------------------------------------------------------------- constants

PAUSE_THRESHOLD_SHORT == 70

PAUSE_THRESHOLD_LONG == 200

FILLER_WORDS ==
    { <<"e", "-">>,            \* "えー"
      <<"a", "no">>,           \* "あの"
      <<"so", "no", "-">>,     \* "そのー"
      <<"e", "tt", "to">>,     \* "えっと"
      <<"ma", "a">>,           \* "まあ"
      <<"na", "n", "ka">>,     \* "なんか"
      <<"so", "no">>,          \* "その"
      <<"a", "-">>,            \* "あー"
      <<"u", "-", "n">>,       \* "うーん"
      <<"n", "-">> }           \* "んー"

INCOMPLETE_ENDINGS ==
    { <<"te">>,                      \* "て"
      <<"de">>,                      \* "で"
      <<"ka", "ra">>,                \* "から"
      <<"no", "de">>,                \* "ので"
      <<"no", "ni">>,                \* "のに"
      <<"ke", "do">>,                \* "けど"
      <<"ga">>,                      \* "が"
      <<"ke", "re", "do">>,          \* "けれど"
      <<"ke", "re", "do", "mo">> }   \* "けれども"

\* The value of an Optional field that is absent (Python's None).
None == "None"

\* ------------------------------------------------------------ text helpers

WS == " "

RECURSIVE LStrip(_)
LStrip(t) == IF t # <<>> /\ Head(t) = WS THEN LStrip(Tail(t)) ELSE t

RECURSIVE RStrip(_)
RStrip(t) ==
    IF t # <<>> /\ t[Len(t)] = WS THEN RStrip(SubSeq(t, 1, Len(t) - 1)) ELSE t

\* str.strip()
Strip(t) == RStrip(LStrip(t))

\* str.endswith(e)
EndsWith(t, e) ==
    /\ Len(e) <= Len(t)
    /\ SubSeq(t, Len(t) - Len(e) + 1, Len(t)) = e

\* str.startswith(p)
StartsWith(t, p) ==
    /\ Len(p) <= Len(t)
    /\ SubSeq(t, 1, Len(p)) = p

\* f"{a} {b}"
JoinWithSpace(a, b) == a \o <<" ">> \o b

\* -------------------------------------------------------------- predicates

_is_filler_only(text) == Strip(text) \in FILLER_WORDS

_has_incomplete_ending(text) ==
    \E ending \in INCOMPLETE_ENDINGS : EndsWith(Strip(text), ending)

IsShortPause_NonStrict(pause_duration) == pause_duration <= PAUSE_THRESHOLD_SHORT

_is_short_pause(pause_duration) == pause_duration < PAUSE_THRESHOLD_SHORT

ClassifyPauseLevel_ClosedLowerTier(pause_duration) ==
    IF pause_duration <= PAUSE_THRESHOLD_SHORT THEN "SHORT"
    ELSE IF pause_duration <= PAUSE_THRESHOLD_LONG THEN "NORMAL"
    ELSE "LONG"

_classify_pause_level(pause_duration) ==
    IF pause_duration < PAUSE_THRESHOLD_SHORT THEN "SHORT"
    ELSE IF pause_duration < PAUSE_THRESHOLD_LONG THEN "NORMAL"
    ELSE "LONG"

\* ------------------------------------------------------------- combinators

Max(a, b) == IF a >= b THEN a ELSE b

ASRSegment(segment_id, start_time, end_time, text, speaker_id) ==
    [ segment_id |-> segment_id,
      start_time |-> start_time,
      end_time   |-> end_time,
      text       |-> text,
      speaker_id |-> speaker_id ]

MergeSegments_StartFromSecond(segment1, segment2) ==
    ASRSegment(segment1.segment_id,
               segment2.start_time,
               segment2.end_time,
               Strip(JoinWithSpace(segment1.text, segment2.text)),
               segment1.speaker_id)

MergeSegments_KeepsFirstEnd(segment1, segment2) ==
    ASRSegment(segment1.segment_id,
               segment1.start_time,
               segment1.end_time,
               Strip(JoinWithSpace(segment1.text, segment2.text)),
               segment1.speaker_id)

_merge_segments(segment1, segment2) ==
    ASRSegment(segment1.segment_id,
               segment1.start_time,
               segment2.end_time,
               Strip(JoinWithSpace(segment1.text, segment2.text)),
               segment1.speaker_id)

\* previous_units is the working list, utterance_id the value uuid4() returns.
CreateUtteranceUnit_NoClamp(segment, speaker_id, previous_units, index, utterance_id) ==
    LET pause_before ==
            IF previous_units # <<>>
            THEN segment.start_time - previous_units[Len(previous_units)].end_time
            ELSE 0
    IN  [ utterance_id     |-> utterance_id,
          speaker_id       |-> speaker_id,
          text             |-> segment.text,
          start_time       |-> segment.start_time,
          end_time         |-> segment.end_time,
          duration         |-> segment.end_time - segment.start_time,
          confidence       |-> None,
          pause_before     |-> pause_before,
          pause_level      |-> _classify_pause_level(pause_before),
          index_in_session |-> index ]

CreateUtteranceUnit_SwappedGap(segment, speaker_id, previous_units, index, utterance_id) ==
    LET pause_before ==
            IF previous_units # <<>>
            THEN Max(0, previous_units[Len(previous_units)].end_time
                          - segment.start_time)
            ELSE 0
    IN  [ utterance_id     |-> utterance_id,
          speaker_id       |-> speaker_id,
          text             |-> segment.text,
          start_time       |-> segment.start_time,
          end_time         |-> segment.end_time,
          duration         |-> segment.end_time - segment.start_time,
          confidence       |-> None,
          pause_before     |-> pause_before,
          pause_level      |-> _classify_pause_level(pause_before),
          index_in_session |-> index ]

CreateUtteranceUnit_PauseFromFirstUnit(segment, speaker_id, previous_units, index, utterance_id) ==
    LET pause_before ==
            IF previous_units # <<>>
            THEN Max(0, segment.start_time - previous_units[1].end_time)
            ELSE 0
    IN  [ utterance_id     |-> utterance_id,
          speaker_id       |-> speaker_id,
          text             |-> segment.text,
          start_time       |-> segment.start_time,
          end_time         |-> segment.end_time,
          duration         |-> segment.end_time - segment.start_time,
          confidence       |-> None,
          pause_before     |-> pause_before,
          pause_level      |-> _classify_pause_level(pause_before),
          index_in_session |-> index ]

CreateUtteranceUnit_PauseFromZero(segment, speaker_id, previous_units, index, utterance_id) ==
    LET pause_before ==
            Max(0, segment.start_time
                     - (IF previous_units # <<>>
                        THEN previous_units[Len(previous_units)].end_time
                        ELSE 0))
    IN  [ utterance_id     |-> utterance_id,
          speaker_id       |-> speaker_id,
          text             |-> segment.text,
          start_time       |-> segment.start_time,
          end_time         |-> segment.end_time,
          duration         |-> segment.end_time - segment.start_time,
          confidence       |-> None,
          pause_before     |-> pause_before,
          pause_level      |-> _classify_pause_level(pause_before),
          index_in_session |-> index ]

_create_utterance_unit(segment, speaker_id, previous_units, index, utterance_id) ==
    LET pause_before ==
            IF previous_units # <<>>
            THEN Max(0, segment.start_time
                          - previous_units[Len(previous_units)].end_time)
            ELSE 0
    IN  [ utterance_id     |-> utterance_id,
          speaker_id       |-> speaker_id,
          text             |-> segment.text,
          start_time       |-> segment.start_time,
          end_time         |-> segment.end_time,
          duration         |-> segment.end_time - segment.start_time,
          confidence       |-> None,
          pause_before     |-> pause_before,
          pause_level      |-> _classify_pause_level(pause_before),
          index_in_session |-> index ]

MergeWithPrevious_RecomputesPause(previous_unit, filler_segment) ==
    [ previous_unit EXCEPT
        !.text         = Strip(JoinWithSpace(previous_unit.text, filler_segment.text)),
        !.end_time     = Max(previous_unit.end_time, filler_segment.end_time),
        !.duration     = Max(previous_unit.end_time, filler_segment.end_time)
                           - previous_unit.start_time,
        !.pause_before = Max(0, filler_segment.start_time - previous_unit.end_time) ]

MergeWithPrevious_StaleDuration(previous_unit, filler_segment) ==
    [ previous_unit EXCEPT
        !.text     = Strip(JoinWithSpace(previous_unit.text, filler_segment.text)),
        !.end_time = Max(previous_unit.end_time, filler_segment.end_time) ]

MergeWithPrevious_EndFromFiller(previous_unit, filler_segment) ==
    [ previous_unit EXCEPT
        !.text     = Strip(JoinWithSpace(previous_unit.text, filler_segment.text)),
        !.end_time = filler_segment.end_time,
        !.duration = filler_segment.end_time - previous_unit.start_time ]

_merge_with_previous(previous_unit, filler_segment) ==
    LET merged_end == Max(previous_unit.end_time, filler_segment.end_time)
    IN  [ utterance_id     |-> previous_unit.utterance_id,
          speaker_id       |-> previous_unit.speaker_id,
          text             |-> Strip(JoinWithSpace(previous_unit.text,
                                                   filler_segment.text)),
          start_time       |-> previous_unit.start_time,
          end_time         |-> merged_end,
          duration         |-> merged_end - previous_unit.start_time,
          confidence       |-> previous_unit.confidence,
          pause_before     |-> previous_unit.pause_before,
          pause_level      |-> previous_unit.pause_level,
          index_in_session |-> previous_unit.index_in_session ]

\* ----------------------------------------------------------------- sorting

\* As InsertByStart, but x goes in front of the elements whose key equals its
\* own: ties come out in reverse input order.
RECURSIVE InsertByStart_BeforeTies(_, _)
InsertByStart_BeforeTies(x, s) ==
    IF s = <<>> THEN <<x>>
    ELSE IF s[Len(s)].start_time < x.start_time THEN Append(s, x)
    ELSE Append(InsertByStart_BeforeTies(x, SubSeq(s, 1, Len(s) - 1)), s[Len(s)])

\* x goes behind every element whose key is <= its own: the sort is stable.
RECURSIVE InsertByStart(_, _)
InsertByStart(x, s) ==
    IF s = <<>> THEN <<x>>
    ELSE IF s[Len(s)].start_time <= x.start_time THEN Append(s, x)
    ELSE Append(InsertByStart(x, SubSeq(s, 1, Len(s) - 1)), s[Len(s)])

SortedByStart_NoSort(s) == s

\* sorted(s, key=lambda s: s.start_time)
RECURSIVE SortedByStart(_)
SortedByStart(s) ==
    IF s = <<>> THEN <<>>
    ELSE InsertByStart(s[Len(s)], SortedByStart(SubSeq(s, 1, Len(s) - 1)))

\* ------------------------------------------------------------------ inputs

\* The <<start_time, end_time>> pairs the inputs are drawn from.  Between them
\* occur gaps (next start - current end) of 0, 0.7 s, 2.0 s and 2.7 s, equal
\* starts, overlaps (<<70, 270>> before <<70, 70>>), a span nested in another
\* and a segment whose end lies before its start (<<270, 70>>).
Spans ==
    { <<0, 0>>, <<0, 70>>, <<70, 70>>, <<70, 270>>, <<270, 270>>, <<270, 70>> }

\* Segment texts the inputs are drawn from.
Texts ==
    { <<"x">>,                   \* an ordinary text
      <<"x", "te">>,             \* a text with an incomplete ending
      <<"a", "no">>,             \* a filler
      <<" ", "a", "no">>,        \* a filler behind leading whitespace
      <<" ", "x", "te", " ">> }  \* incomplete ending, whitespace on both sides

\* The speaker id the caller passes to structure().
CallerSpeaker == "speaker_0"

\* ------------------------------------------------------------------- state

VARIABLES
    asr_segments,     \* asr_result.segments, the caller's list
    pc,               \* "input" while the caller's list is being produced,
                      \* then the position in structure(): "loop", "done",
                      \* or "raised" when an exception left the call
    segments,         \* the sorted copy
    utterance_units,  \* the working list
    index,            \* running index_in_session
    i,                \* cursor into segments (0-based, as in the code)
    returned,         \* the returned list once pc = "done"
    uuid_count,       \* number of uuid4() calls so far; the next id is fresh
    folded,           \* history: per unit, the (1-based) positions in
                      \* segments of the segments it was built from
    last_step,        \* history: the branch the last step took
    iterations,       \* history: loop iterations run so far
    pause_duration,   \* argument of a _classify_pause_level call
    pause_level,      \* its result
    calls,            \* concurrent calls of structure(): per call, its frame
    given,            \* history: per call, the list its caller passed
    files,            \* the files under base_dir: path -> JSON document
    saved,            \* history: evidence_id -> the Evidence last saved
    first_saved,      \* history: evidence_id -> the Evidence first saved
    repo_result,      \* the outcome of the last repository operation
    run_frame         \* HSIEController.run: its position, its locals, what it
                      \* returned or raised, and the steps it has taken

vars == << asr_segments, pc, segments, utterance_units, index, i, returned,
           uuid_count, folded, last_step, iterations, pause_duration, pause_level,
           calls, given, files, saved, first_saved, repo_result, run_frame >>

classifier_vars == << pause_duration, pause_level >>

concurrent_vars == << calls, given >>

repo_vars == << files, saved, first_saved, repo_result >>

structure_vars == << asr_segments, segments, utterance_units, index, i, returned,
                     folded, last_step, iterations >>

controller_vars == << run_frame >>

\* What belongs to other operations than structure().
other_vars == << classifier_vars, concurrent_vars, repo_vars, controller_vars >>

\* segments[i] and segments[i + 1] of the code (TLA+ sequences start at 1).
current_segment == segments[i + 1]

next_segment == segments[i + 2]

last_unit == utterance_units[Len(utterance_units)]

\* The Field(ge=...) constraints pydantic checks when a model is constructed;
\* a violation raises ValidationError.
ASRSegmentValid(segment) ==
    /\ segment.start_time >= 0
    /\ segment.end_time >= 0

UtteranceUnitValid(unit) ==
    /\ unit.start_time >= 0
    /\ unit.end_time >= 0
    /\ unit.pause_before >= 0
    /\ unit.index_in_session >= 0

Init ==
    /\ asr_segments = <<>>
    /\ pc = "input"
    /\ segments = <<>>
    /\ utterance_units = <<>>
    /\ index = 0
    /\ i = 0
    /\ returned = <<>>
    /\ uuid_count = 0
    /\ folded = <<>>
    /\ last_step = "none"
    /\ iterations = 0
    /\ pause_duration = 0
    /\ pause_level = None
    /\ calls = <<>>
    /\ given = <<>>
    /\ files = <<>>
    /\ saved = <<>>
    /\ first_saved = <<>>
    /\ repo_result = [op |-> "none"]
    /\ run_frame = <<>>

\* The transcriber appends one segment to ASRResult.segments: any span, any
\* text, in any order; segment_id numbers the segments as they are produced.
AddSegment ==
    /\ pc = "input"
    /\ Len(asr_segments) < MaxSegs
    /\ \E span \in Spans, text \in Texts :
         asr_segments' =
            Append(asr_segments,
                   ASRSegment(Len(asr_segments), span[1], span[2], text, None))
    /\ UNCHANGED << pc, segments, utterance_units, index, i, returned, uuid_count,
                    folded, last_step, iterations, other_vars >>

\* As Sort, but the first segment is read before the list is known to have one.
Sort_FailsOnEmpty ==
    /\ pc = "input"
    /\ segments' = SortedByStart(asr_segments)
    /\ IF segments' = <<>>
       THEN /\ pc' = "raised"
            /\ last_step' = "raise"
       ELSE /\ pc' = "loop"
            /\ last_step' = "sort"
    /\ utterance_units' = <<>>
    /\ index' = 0
    /\ i' = 0
    /\ returned' = <<>>
    /\ UNCHANGED << asr_segments, uuid_count, folded, iterations, other_vars >>

\* structure(), lines 133-143: sort, return [] on empty input, set up the walk.
Sort ==
    /\ pc = "input"
    /\ segments' = SortedByStart(asr_segments)
    /\ IF segments' = <<>>
       THEN /\ pc' = "done"
            /\ last_step' = "empty"
       ELSE /\ pc' = "loop"
            /\ last_step' = "sort"
    /\ utterance_units' = <<>>
    /\ index' = 0
    /\ i' = 0
    /\ returned' = <<>>
    /\ UNCHANGED << asr_segments, uuid_count, folded, iterations, other_vars >>

\* The branch conditions of one loop iteration (lines 144-183).
InLoop == pc = "loop" /\ i < Len(segments)

AbsorbsFiller ==
    /\ _is_filler_only(current_segment.text)
    /\ utterance_units # <<>>

\* As MergesIncomplete, without the test that the next segment is no filler.
MergesIncomplete_TakesFiller ==
    /\ i + 1 < Len(segments)
    /\ _has_incomplete_ending(current_segment.text)
    /\ _is_short_pause(next_segment.start_time - current_segment.end_time)

MergesIncomplete ==
    /\ i + 1 < Len(segments)
    /\ ~ _is_filler_only(next_segment.text)
    /\ _has_incomplete_ending(current_segment.text)
    /\ _is_short_pause(next_segment.start_time - current_segment.end_time)

\* A ValidationError leaves structure(): nothing is returned.
Raise ==
    /\ pc' = "raised"
    /\ last_step' = "raise"
    /\ iterations' = iterations + 1
    /\ UNCHANGED << asr_segments, segments, utterance_units, index, i, returned,
                    folded, other_vars >>

\* utterance_units[-1] = unit; i += 1; continue, with index += index_step.
ReplaceLast(unit, index_step) ==
    /\ utterance_units' = [utterance_units EXCEPT ![Len(utterance_units)] = unit]
    /\ folded' = [folded EXCEPT ![Len(folded)] = Append(@, i + 1)]
    /\ i' = i + 1
    /\ index' = index + index_step
    /\ last_step' = "filler"
    /\ iterations' = iterations + 1
    /\ UNCHANGED << asr_segments, pc, segments, returned, uuid_count, other_vars >>

\* utterance_units.append(unit); index += index_step; i += advance, for a unit
\* built from the segments at `positions`.
Emit(unit, positions, advance, index_step, step) ==
    /\ utterance_units' = Append(utterance_units, unit)
    /\ folded' = Append(folded, positions)
    /\ index' = index + index_step
    /\ i' = i + advance
    /\ last_step' = step
    /\ iterations' = iterations + 1
    /\ UNCHANGED << asr_segments, pc, segments, returned, other_vars >>

\* As FillerAbsorb, but the absorbed filler uses up an index.
FillerAbsorb_ConsumesIndex ==
    /\ InLoop
    /\ AbsorbsFiller
    /\ ReplaceLast(_merge_with_previous(last_unit, current_segment), 1)

\* As FillerAbsorb, but "i += 1; continue" is also run when no unit exists yet:
\* a leading filler is skipped.
FillerAbsorb_SkipsLeadingFiller ==
    /\ InLoop
    /\ _is_filler_only(current_segment.text)
    /\ IF utterance_units # <<>>
       THEN ReplaceLast(_merge_with_previous(last_unit, current_segment), 0)
       ELSE /\ i' = i + 1
            /\ last_step' = "filler"
            /\ iterations' = iterations + 1
            /\ UNCHANGED << asr_segments, pc, segments, utterance_units, index,
                            returned, uuid_count, folded, other_vars >>

\* Lines 148-156: the filler is merged into the last unit.
FillerAbsorb ==
    /\ InLoop
    /\ AbsorbsFiller
    /\ LET merged == _merge_with_previous(last_unit, current_segment)
       IN  IF UtteranceUnitValid(merged)
           THEN ReplaceLast(merged, 0)
           ELSE Raise /\ UNCHANGED uuid_count

\* As IncompleteMerge, but the unit is built from the current segment alone:
\* the second segment of the pair is walked over and lost.
IncompleteMerge_DropsSecond ==
    /\ InLoop
    /\ ~ AbsorbsFiller
    /\ MergesIncomplete
    /\ uuid_count' = uuid_count + 1
    /\ Emit(_create_utterance_unit(current_segment, CallerSpeaker,
                                   utterance_units, index, uuid_count + 1),
            << i + 1 >>, 2, 1, "merge")

\* As IncompleteMerge, but the index moves by two like the cursor.
IncompleteMerge_IndexByTwo ==
    /\ InLoop
    /\ ~ AbsorbsFiller
    /\ MergesIncomplete
    /\ uuid_count' = uuid_count + 1
    /\ Emit(_create_utterance_unit(_merge_segments(current_segment, next_segment),
                                   CallerSpeaker, utterance_units, index,
                                   uuid_count + 1),
            << i + 1, i + 2 >>, 2, 2, "merge")

\* As IncompleteMerge, but the cursor moves by one: the second segment of the
\* pair is walked over again.
IncompleteMerge_CursorByOne ==
    /\ InLoop
    /\ ~ AbsorbsFiller
    /\ MergesIncomplete
    /\ uuid_count' = uuid_count + 1
    /\ Emit(_create_utterance_unit(_merge_segments(current_segment, next_segment),
                                   CallerSpeaker, utterance_units, index,
                                   uuid_count + 1),
            << i + 1, i + 2 >>, 1, 1, "merge")

\* Lines 163-183: incomplete ending and short pause, two segments make one unit.
IncompleteMerge ==
    /\ InLoop
    /\ ~ AbsorbsFiller
    /\ MergesIncomplete
    /\ LET merged_segment == _merge_segments(current_segment, next_segment)
           unit == _create_utterance_unit(merged_segment, CallerSpeaker,
                                          utterance_units, index, uuid_count + 1)
       IN  IF ~ ASRSegmentValid(merged_segment)
           THEN Raise /\ UNCHANGED uuid_count
           ELSE /\ uuid_count' = uuid_count + 1
                /\ IF UtteranceUnitValid(unit)
                   THEN Emit(unit, << i + 1, i + 2 >>, 2, 1, "merge")
                   ELSE Raise

\* As NormalStep, but the cursor stays where it is.
NormalStep_CursorStays ==
    /\ InLoop
    /\ ~ AbsorbsFiller
    /\ ~ MergesIncomplete
    /\ uuid_count' = uuid_count + 1
    /\ Emit(_create_utterance_unit(current_segment, CallerSpeaker,
                                   utterance_units, index, uuid_count + 1),
            << i + 1 >>, 0, 1, "normal")

\* Lines 185-194: one segment makes one unit.
NormalStep ==
    /\ InLoop
    /\ ~ AbsorbsFiller
    /\ ~ MergesIncomplete
    /\ uuid_count' = uuid_count + 1
    /\ LET unit == _create_utterance_unit(current_segment, CallerSpeaker,
                                          utterance_units, index, uuid_count + 1)
       IN  IF UtteranceUnitValid(unit)
           THEN Emit(unit, << i + 1 >>, 1, 1, "normal")
           ELSE Raise

\* Line 196: the loop is over, the working list is returned.
Return ==
    /\ pc = "loop"
    /\ ~ (i < Len(segments))
    /\ pc' = "done"
    /\ returned' = utterance_units
    /\ last_step' = "return"
    /\ UNCHANGED << asr_segments, segments, utterance_units, index, i, uuid_count,
                    folded, iterations, other_vars >>

Next ==
    \/ AddSegment
    \/ Sort
    \/ FillerAbsorb
    \/ IncompleteMerge
    \/ NormalStep
    \/ Return

Spec == Init /\ [][Next]_vars

\* ------------------------------------------------- the pause classifier alone

InitClassify ==
    /\ pause_duration \in 0..MaxGap
    /\ pause_level = None
    /\ pc = "classify"
    /\ asr_segments = <<>>
    /\ segments = <<>>
    /\ utterance_units = <<>>
    /\ index = 0
    /\ i = 0
    /\ returned = <<>>
    /\ uuid_count = 0
    /\ folded = <<>>
    /\ last_step = "none"
    /\ iterations = 0
    /\ calls = <<>>
    /\ given = <<>>
    /\ files = <<>>
    /\ saved = <<>>
    /\ first_saved = <<>>
    /\ repo_result = [op |-> "none"]
    /\ run_frame = <<>>

\* One call of _classify_pause_level (lines 368-385).
Classify ==
    /\ pc = "classify"
    /\ pause_level' = _classify_pause_level(pause_duration)
    /\ pc' = "classified"
    /\ UNCHANGED << pause_duration, uuid_count, structure_vars, concurrent_vars,
                    repo_vars, controller_vars >>

NextClassify == Classify

SpecClassify == InitClassify /\ [][NextClassify]_vars

\* ------------------------------------------- structure() as a function
\* The locals of one call of structure(): its frame.  uuids counts the
\* uuid4() calls the call has made.
StartFrame(segment_list) ==
    [ asr_segments    |-> segment_list,
      pc              |-> "start",
      segments        |-> <<>>,
      utterance_units |-> <<>>,
      index           |-> 0,
      i               |-> 0,
      returned        |-> <<>>,
      uuids           |-> 0 ]

FrameRaise(frame) == [frame EXCEPT !.pc = "raised"]

\* Lines 186-194 (and 174-182 for a merged segment): a unit is created and
\* appended, the cursor moves on by `advance`.
FrameEmit(frame, segment, advance, utterance_id) ==
    LET unit == _create_utterance_unit(segment, CallerSpeaker,
                                       frame.utterance_units, frame.index,
                                       utterance_id)
    IN  IF UtteranceUnitValid(unit)
        THEN [frame EXCEPT !.utterance_units = Append(@, unit),
                           !.index = @ + 1,
                           !.i = @ + advance,
                           !.uuids = @ + 1]
        ELSE [frame EXCEPT !.pc = "raised", !.uuids = @ + 1]

\* One iteration of the while loop (lines 144-194) on a frame.
FrameIteration(frame, utterance_id) ==
    LET current == frame.segments[frame.i + 1]
        next    == frame.segments[frame.i + 2]
        units   == frame.utterance_units
    IN  IF _is_filler_only(current.text) /\ units # <<>>
        THEN LET merged == _merge_with_previous(units[Len(units)], current)
             IN  IF UtteranceUnitValid(merged)
                 THEN [frame EXCEPT !.utterance_units[Len(units)] = merged,
                                    !.i = @ + 1]
                 ELSE FrameRaise(frame)
        ELSE IF /\ frame.i + 1 < Len(frame.segments)
                /\ ~ _is_filler_only(next.text)
                /\ _has_incomplete_ending(current.text)
                /\ _is_short_pause(next.start_time - current.end_time)
        THEN LET merged_segment == _merge_segments(current, next)
             IN  IF ASRSegmentValid(merged_segment)
                 THEN FrameEmit(frame, merged_segment, 2, utterance_id)
                 ELSE FrameRaise(frame)
        ELSE FrameEmit(frame, current, 1, utterance_id)

\* One step of structure() (lines 133-196) on a frame; utterance_id is the id
\* uuid4() hands out if the step asks for one.
structure_step(frame, utterance_id) ==
    IF frame.pc = "start"
    THEN LET sorted == SortedByStart(frame.asr_segments)
         IN  [frame EXCEPT !.segments = sorted,
                           !.pc = IF sorted = <<>> THEN "done" ELSE "loop"]
    ELSE IF frame.pc = "loop" /\ frame.i < Len(frame.segments)
    THEN FrameIteration(frame, utterance_id)
    ELSE IF frame.pc = "loop"
    THEN [frame EXCEPT !.pc = "done", !.returned = frame.utterance_units]
    ELSE frame

\* structure() run from a frame to its end with nothing else running; the
\* ids are first_id + 1, first_id + 2, ...
RECURSIVE RunAlone(_, _)
RunAlone(frame, first_id) ==
    IF frame.pc \in {"done", "raised"}
    THEN frame
    ELSE RunAlone(structure_step(frame, first_id + frame.uuids + 1), first_id)

structure(segment_list, first_id) == RunAlone(StartFrame(segment_list), first_id)

\* -------------------------------------------------- two calls of structure()

MaxCallSegs == 2

Calls == {1, 2}

\* What the callers pass: plain, incomplete-ending and filler texts, spans a
\* short pause apart, one of them ending before it starts.
CallSegments ==
    { ASRSegment(0, 0, 70, << "x", "te" >>, None),
      ASRSegment(1, 70, 70, << "x" >>, None),
      ASRSegment(2, 70, 270, << " ", "a", "no" >>, None),
      ASRSegment(3, 0, 0, << "x" >>, None),
      ASRSegment(4, 270, 70, << "x", "te" >>, None) }

CallInputs ==
    UNION { [1..n -> CallSegments] : n \in 0..MaxCallSegs }

InitConcurrent ==
    /\ given \in [Calls -> CallInputs]
    /\ calls = [c \in Calls |-> StartFrame(given[c])]
    /\ uuid_count = 0
    /\ pc = "concurrent"
    /\ asr_segments = <<>>
    /\ segments = <<>>
    /\ utterance_units = <<>>
    /\ index = 0
    /\ i = 0
    /\ returned = <<>>
    /\ folded = <<>>
    /\ last_step = "none"
    /\ iterations = 0
    /\ pause_duration = 0
    /\ pause_level = None
    /\ files = <<>>
    /\ saved = <<>>
    /\ first_saved = <<>>
    /\ repo_result = [op |-> "none"]
    /\ run_frame = <<>>

Running(c) == calls[c].pc \in {"start", "loop"}

\* As CallStep, but the working list is kept on the structurer object, which
\* the calls share.
CallStep_WorkingListOnSelf(c) ==
    /\ Running(c)
    /\ LET after == structure_step(calls[c], uuid_count + 1)
       IN  /\ calls' = [d \in Calls |->
                          IF d = c THEN after
                          ELSE [calls[d] EXCEPT
                                  !.utterance_units = after.utterance_units]]
           /\ uuid_count' = uuid_count + (after.uuids - calls[c].uuids)
    /\ UNCHANGED << given, pc, structure_vars, classifier_vars, repo_vars,
                    controller_vars >>

\* Call c takes its next step; the other call is wherever it is.
CallStep(c) ==
    /\ Running(c)
    /\ LET after == structure_step(calls[c], uuid_count + 1)
       IN  /\ calls' = [calls EXCEPT ![c] = after]
           /\ uuid_count' = uuid_count + (after.uuids - calls[c].uuids)
    /\ UNCHANGED << given, pc, structure_vars, classifier_vars, repo_vars,
                    controller_vars >>

NextConcurrent == \E c \in Calls : CallStep(c)

SpecConcurrent == InitConcurrent /\ [][NextConcurrent]_vars

\* --------------------------------------------------- the evidence repository
\* JSON documents, as model_dump_json writes them and model_validate_json
\* reads them.
JsonNull == [json |-> "null"]

JsonString(s) == [json |-> "string", value |-> s]

JsonNumber(n) == [json |-> "number", value |-> n]

JsonArray(items) == [json |-> "array", items |-> items]

JsonObject(members) == [json |-> "object", members |-> members]

\* An Optional number of the context is a sequence of at most one number;
\* every other Optional field is None or its value.
Absent == <<>>

Present(x) == << x >>

\* A datetime: a moment and its tzinfo (None when naive).
Datetime(tick, tz) == [tick |-> tick, tz |-> tz]

\* Serialisation by field type: a UUID and a datetime are written as their
\* text, None as null, a list as an array, a model as an object.
dump_uuid(u) == JsonString(<< "uuid", u >>)

dump_datetime(d) ==
    JsonString(IF d.tz = "UTC" THEN << "iso", d.tick, "Z" >> ELSE << "iso", d.tick >>)

dump_optional_str(x) == IF x = None THEN JsonNull ELSE JsonString(x)

dump_optional_float(x) == IF x = None THEN JsonNull ELSE JsonNumber(x)

dump_optional_number(o) == IF o = Absent THEN JsonNull ELSE JsonNumber(o[1])

dump_segment(segment) ==
    JsonObject([ segment_id |-> JsonNumber(segment.segment_id),
                 start_time |-> JsonNumber(segment.start_time),
                 end_time   |-> JsonNumber(segment.end_time),
                 text       |-> JsonString(segment.text),
                 speaker_id |-> dump_optional_str(segment.speaker_id) ])

dump_unit(unit) ==
    JsonObject([ utterance_id     |-> dump_uuid(unit.utterance_id),
                 speaker_id       |-> JsonString(unit.speaker_id),
                 text             |-> JsonString(unit.text),
                 start_time       |-> JsonNumber(unit.start_time),
                 end_time         |-> JsonNumber(unit.end_time),
                 duration         |-> JsonNumber(unit.duration),
                 confidence       |-> dump_optional_float(unit.confidence),
                 pause_before     |-> JsonNumber(unit.pause_before),
                 pause_level      |-> JsonString(unit.pause_level),
                 index_in_session |-> JsonNumber(unit.index_in_session) ])

dump_segments(list) == JsonArray([k \in 1..Len(list) |-> dump_segment(list[k])])

dump_units(list) == JsonArray([k \in 1..Len(list) |-> dump_unit(list[k])])

dump_asr_result(result) ==
    JsonObject([ asr_id      |-> dump_uuid(result.asr_id),
                 audio_id    |-> dump_uuid(result.audio_id),
                 language    |-> JsonString(result.language),
                 transcript  |-> JsonString(result.transcript),
                 segments    |-> dump_segments(result.segments),
                 created_at  |-> dump_datetime(result.created_at),
                 engine_name |-> dump_optional_str(result.engine_name),
                 model_name  |-> dump_optional_str(result.model_name) ])

dump_context(context) ==
    JsonObject([ context_id      |-> dump_uuid(context.context_id),
                 audio_id        |-> dump_uuid(context.audio_id),
                 session_id      |-> JsonString(context.session_id),
                 speaker_id      |-> JsonString(context.speaker_id),
                 audio_path      |-> JsonString(context.audio_path),
                 asr_engine      |-> JsonString(context.asr_engine),
                 asr_version     |-> dump_optional_str(context.asr_version),
                 language        |-> JsonString(context.language),
                 sampling_rate   |-> dump_optional_number(context.sampling_rate),
                 duration        |-> dump_optional_number(context.duration),
                 utterance_units |-> JsonArray(context.utterance_units),
                 created_at      |-> dump_datetime(context.created_at),
                 status          |-> JsonString(context.status) ])

model_dump_json(evidence) ==
    JsonObject([ evidence_id     |-> dump_uuid(evidence.evidence_id),
                 context         |-> dump_context(evidence.context),
                 asr_result      |-> dump_asr_result(evidence.asr_result),
                 utterance_units |-> dump_units(evidence.utterance_units),
                 saved_at        |-> dump_datetime(evidence.saved_at),
                 version         |-> JsonString(evidence.version) ])

\* Validation by field type: the value, or not ok (a ValidationError).
Ok(v) == [ok |-> TRUE, value |-> << v >>]

Invalid == [ok |-> FALSE, value |-> <<>>]

Got(r) == r.value[1]

load_str(j) == IF j.json = "string" THEN Ok(j.value) ELSE Invalid

load_optional_str(j) == IF j.json = "null" THEN Ok(None) ELSE load_str(j)

load_number(j) == IF j.json = "number" THEN Ok(j.value) ELSE Invalid

\* Field(ge=0)
load_number_ge0(j) ==
    IF j.json = "number" /\ j.value >= 0 THEN Ok(j.value) ELSE Invalid

load_optional_float(j) == IF j.json = "null" THEN Ok(None) ELSE load_number(j)

load_optional_number(j) ==
    IF j.json = "null" THEN Ok(Absent)
    ELSE IF j.json = "number" THEN Ok(Present(j.value))
    ELSE Invalid

load_uuid(j) ==
    IF j.json = "string" /\ Len(j.value) = 2 /\ j.value[1] = "uuid"
    THEN Ok(j.value[2])
    ELSE Invalid

load_datetime(j) ==
    IF j.json = "string" /\ Len(j.value) \in {2, 3} /\ j.value[1] = "iso"
    THEN IF Len(j.value) = 2 THEN Ok(Datetime(j.value[2], None))
         ELSE IF j.value[3] = "Z" THEN Ok(Datetime(j.value[2], "UTC"))
         ELSE Invalid
    ELSE Invalid

\* A list is valid when each of its items is.
load_list(loaded) ==
    IF \A k \in 1..Len(loaded) : loaded[k].ok
    THEN Ok([k \in 1..Len(loaded) |-> Got(loaded[k])])
    ELSE Invalid

load_segment(j) ==
    IF j.json # "object" THEN Invalid
    ELSE LET m == j.members
             segment_id == load_number(m.segment_id)
             start_time == load_number_ge0(m.start_time)
             end_time   == load_number_ge0(m.end_time)
             text       == load_str(m.text)
             speaker_id == load_optional_str(m.speaker_id)
         IN  IF /\ segment_id.ok /\ start_time.ok /\ end_time.ok
                /\ text.ok /\ speaker_id.ok
             THEN Ok(ASRSegment(Got(segment_id), Got(start_time), Got(end_time),
                                Got(text), Got(speaker_id)))
             ELSE Invalid

load_segments(j) ==
    IF j.json # "array" THEN Invalid
    ELSE load_list([k \in 1..Len(j.items) |-> load_segment(j.items[k])])

load_unit(j) ==
    IF j.json # "object" THEN Invalid
    ELSE LET m == j.members
             utterance_id == load_uuid(m.utterance_id)
             speaker_id   == load_str(m.speaker_id)
             text         == load_str(m.text)
             start_time   == load_number_ge0(m.start_time)
             end_time     == load_number_ge0(m.end_time)
             duration     == load_number(m.duration)
             confidence   == load_optional_float(m.confidence)
             pause_before == load_number_ge0(m.pause_before)
             level        == load_str(m.pause_level)
             index_in     == load_number_ge0(m.index_in_session)
         IN  IF /\ utterance_id.ok /\ speaker_id.ok /\ text.ok /\ start_time.ok
                /\ end_time.ok /\ duration.ok /\ confidence.ok /\ pause_before.ok
                /\ level.ok /\ index_in.ok
             THEN Ok([ utterance_id     |-> Got(utterance_id),
                       speaker_id       |-> Got(speaker_id),
                       text             |-> Got(text),
                       start_time       |-> Got(start_time),
                       end_time         |-> Got(end_time),
                       duration         |-> Got(duration),
                       confidence       |-> Got(confidence),
                       pause_before     |-> Got(pause_before),
                       pause_level      |-> Got(level),
                       index_in_session |-> Got(index_in) ])
             ELSE Invalid

load_units(j) ==
    IF j.json # "array" THEN Invalid
    ELSE load_list([k \in 1..Len(j.items) |-> load_unit(j.items[k])])

load_asr_result(j) ==
    IF j.json # "object" THEN Invalid
    ELSE LET m == j.members
             asr_id      == load_uuid(m.asr_id)
             audio_id    == load_uuid(m.audio_id)
             language    == load_str(m.language)
             transcript  == load_str(m.transcript)
             segs        == load_segments(m.segments)
             created_at  == load_datetime(m.created_at)
             engine_name == load_optional_str(m.engine_name)
             model_name  == load_optional_str(m.model_name)
         IN  IF /\ asr_id.ok /\ audio_id.ok /\ language.ok /\ transcript.ok
                /\ segs.ok /\ created_at.ok /\ engine_name.ok /\ model_name.ok
             THEN Ok([ asr_id      |-> Got(asr_id),
                       audio_id    |-> Got(audio_id),
                       language    |-> Got(language),
                       transcript  |-> Got(transcript),
                       segments    |-> Got(segs),
                       created_at  |-> Got(created_at),
                       engine_name |-> Got(engine_name),
                       model_name  |-> Got(model_name) ])
             ELSE Invalid

load_context(j) ==
    IF j.json # "object" THEN Invalid
    ELSE LET m == j.members
             context_id    == load_uuid(m.context_id)
             audio_id      == load_uuid(m.audio_id)
             session_id    == load_str(m.session_id)
             speaker_id    == load_str(m.speaker_id)
             audio_path    == load_str(m.audio_path)
             asr_engine    == load_str(m.asr_engine)
             asr_version   == load_optional_str(m.asr_version)
             language      == load_str(m.language)
             sampling_rate == load_optional_number(m.sampling_rate)
             duration      == load_optional_number(m.duration)
             created_at    == load_datetime(m.created_at)
             status        == load_str(m.status)
         IN  IF /\ context_id.ok /\ audio_id.ok /\ session_id.ok /\ speaker_id.ok
                /\ audio_path.ok /\ asr_engine.ok /\ asr_version.ok /\ language.ok
                /\ sampling_rate.ok /\ duration.ok /\ created_at.ok /\ status.ok
                /\ m.utterance_units.json = "array"
             THEN Ok([ context_id      |-> Got(context_id),
                       audio_id        |-> Got(audio_id),
                       session_id      |-> Got(session_id),
                       speaker_id      |-> Got(speaker_id),
                       audio_path      |-> Got(audio_path),
                       asr_engine      |-> Got(asr_engine),
                       asr_version     |-> Got(asr_version),
                       language        |-> Got(language),
                       sampling_rate   |-> Got(sampling_rate),
                       duration        |-> Got(duration),
                       utterance_units |-> m.utterance_units.items,
                       created_at      |-> Got(created_at),
                       status          |-> Got(status) ])
             ELSE Invalid

model_validate_json(j) ==
    IF j.json # "object" THEN Invalid
    ELSE LET m == j.members
             evidence_id == load_uuid(m.evidence_id)
             context     == load_context(m.context)
             asr_result  == load_asr_result(m.asr_result)
             units       == load_units(m.utterance_units)
             saved_at    == load_datetime(m.saved_at)
             version     == load_str(m.version)
         IN  IF /\ evidence_id.ok /\ context.ok /\ asr_result.ok /\ units.ok
                /\ saved_at.ok /\ version.ok
             THEN Ok([ evidence_id     |-> Got(evidence_id),
                       context         |-> Got(context),
                       asr_result      |-> Got(asr_result),
                       utterance_units |-> Got(units),
                       saved_at        |-> Got(saved_at),
                       version         |-> Got(version) ])
             ELSE Invalid

base_dir == "data/evidence"

\* As _get_file_path, but the file name does not depend on the id.
GetFilePath_IgnoresId(evidence_id) == << base_dir, "evidence", ".json" >>

\* base_dir / f"{evidence_id}.json"
_get_file_path(evidence_id) == << base_dir, "uuid", evidence_id, ".json" >>

\* The records that are saved: HSIEController.run (steps 3-5) assembles them
\* from a transcription, the audio metadata and the structurer's result.
EvidenceIds == {1, 2}

UnknownId == 3

RepoSegmentLists ==
    { <<>>,
      << ASRSegment(0, 0, 70, << "x" >>, None) >>,
      << ASRSegment(0, 0, 70, << "x", "te" >>, None),
         ASRSegment(1, 70, 270, << "x" >>, None) >>,
      << ASRSegment(0, 70, 270, << "x" >>, None),
         ASRSegment(1, 70, 70, << " ", "a", "no" >>, None) >> }

\* (sampling_rate, duration) as collect() reports them: read from a wav file,
\* or None for any other format.
AudioMetadatas == { << Present(16000), Present(270) >>, << Absent, Absent >> }

AssembleEvidence(evidence_id, segment_list, metadata) ==
    LET asr_result ==
            [ asr_id      |-> 11,
              audio_id    |-> 12,
              language    |-> "ja",
              transcript  |-> "transcript",
              segments    |-> segment_list,
              created_at  |-> Datetime(1, None),
              engine_name |-> "whisper",
              model_name  |-> "large" ]
        context ==
            [ context_id      |-> 13,
              audio_id        |-> 12,
              session_id      |-> "session_0",
              speaker_id      |-> CallerSpeaker,
              audio_path      |-> "/audio/a.wav",
              asr_engine      |-> "placeholder",
              asr_version     |-> None,
              language        |-> "ja",
              sampling_rate   |-> metadata[1],
              duration        |-> metadata[2],
              utterance_units |-> <<>>,
              created_at      |-> Datetime(2, None),
              status          |-> "CREATED" ]
    IN  [ evidence_id     |-> evidence_id,
          context         |-> context,
          asr_result      |-> asr_result,
          utterance_units |-> structure(segment_list, 20).returned,
          saved_at        |-> Datetime(3, "UTC"),
          version         |-> "v1" ]

Evidences ==
    { AssembleEvidence(id, list, metadata) :
        id \in EvidenceIds, list \in RepoSegmentLists, metadata \in AudioMetadatas }

InitRepo ==
    /\ files = <<>>
    /\ saved = <<>>
    /\ first_saved = <<>>
    /\ repo_result = [op |-> "none"]
    /\ run_frame = <<>>
    /\ pc = "repository"
    /\ asr_segments = <<>>
    /\ segments = <<>>
    /\ utterance_units = <<>>
    /\ index = 0
    /\ i = 0
    /\ returned = <<>>
    /\ uuid_count = 0
    /\ folded = <<>>
    /\ last_step = "none"
    /\ iterations = 0
    /\ pause_duration = 0
    /\ pause_level = None
    /\ calls = <<>>
    /\ given = <<>>

RepoResult(op, evidence_id, raised, result) ==
    [op |-> op, evidence_id |-> evidence_id, raised |-> raised, returned |-> result]

\* EvidenceRepository.save: the JSON of the record is written to its file.
save(evidence) ==
    LET file_path    == _get_file_path(evidence.evidence_id)
        json_content == model_dump_json(evidence)
    IN  /\ files' = [p \in DOMAIN files \cup {file_path} |->
                       IF p = file_path THEN json_content ELSE files[p]]
        /\ saved' = [id \in DOMAIN saved \cup {evidence.evidence_id} |->
                       IF id = evidence.evidence_id THEN evidence ELSE saved[id]]
        /\ first_saved' =
              [id \in DOMAIN first_saved \cup {evidence.evidence_id} |->
                 IF id \in DOMAIN first_saved THEN first_saved[id] ELSE evidence]
        /\ repo_result' = RepoResult("save", evidence.evidence_id, None, <<>>)
        /\ UNCHANGED << pc, uuid_count, structure_vars, classifier_vars,
                        concurrent_vars, controller_vars >>

\* EvidenceRepository.load: FileNotFoundError without the file, else the file
\* is read and validated.
load(evidence_id) ==
    LET file_path == _get_file_path(evidence_id)
    IN  /\ repo_result' =
              IF file_path \notin DOMAIN files
              THEN RepoResult("load", evidence_id, "FileNotFoundError", <<>>)
              ELSE LET loaded == model_validate_json(files[file_path])
                   IN  IF loaded.ok
                       THEN RepoResult("load", evidence_id, None, << Got(loaded) >>)
                       ELSE RepoResult("load", evidence_id, "ValidationError", <<>>)
        /\ UNCHANGED << files, saved, first_saved, pc, uuid_count, structure_vars,
                        classifier_vars, concurrent_vars, controller_vars >>

\* EvidenceRepository.exists
exists(evidence_id) ==
    /\ repo_result' = RepoResult("exists", evidence_id, None,
                                 << _get_file_path(evidence_id) \in DOMAIN files >>)
    /\ UNCHANGED << files, saved, first_saved, pc, uuid_count, structure_vars,
                    classifier_vars, concurrent_vars, controller_vars >>

NextRepo ==
    \/ \E evidence \in Evidences : save(evidence)
    \/ \E evidence_id \in EvidenceIds \cup {UnknownId} : load(evidence_id)
    \/ \E evidence_id \in EvidenceIds \cup {UnknownId} : exists(evidence_id)

SpecRepo == InitRepo /\ [][NextRepo]_vars

\* ------------------------------------------------------- HSIEController.run

MaxRuns == 2

\* The audio paths run() is called with; the last names no file.
AudioPaths == { "/audio/a.wav", "/audio/b.mp3", "/audio/missing.wav" }

AudioFileExists(audio_path) == audio_path # "/audio/missing.wav"

\* The steps of run() in the order of the code.
RunOrder ==
    << "collect", "transcribe", "build", "structure", "assemble", "save", "return" >>

\* run() has been entered for the n-th time: no step taken, no local bound.
EnterRun(n, audio_path) ==
    [ pc               |-> "entered",
      runs             |-> n,
      audio_path       |-> audio_path,
      trace            |-> <<>>,
      audio_metadata   |-> <<>>,
      asr_result       |-> <<>>,
      analysis_context |-> <<>>,
      utterance_units  |-> <<>>,
      evidence         |-> <<>>,
      returned         |-> <<>>,
      raised           |-> None,
      raised_by        |-> None,
      files_before     |-> files ]

InitController ==
    /\ files = <<>>
    /\ saved = <<>>
    /\ first_saved = <<>>
    /\ repo_result = [op |-> "none"]
    /\ run_frame \in { EnterRun(1, audio_path) : audio_path \in AudioPaths }
    /\ uuid_count = 0
    /\ pc = "controller"
    /\ asr_segments = <<>>
    /\ segments = <<>>
    /\ utterance_units = <<>>
    /\ index = 0
    /\ i = 0
    /\ returned = <<>>
    /\ folded = <<>>
    /\ last_step = "none"
    /\ iterations = 0
    /\ pause_duration = 0
    /\ pause_level = None
    /\ calls = <<>>
    /\ given = <<>>

\* What no step of run() touches.
ControllerFrame ==
    UNCHANGED << pc, structure_vars, classifier_vars, concurrent_vars >>

\* The exception leaves run(): nothing is returned, no later step is taken.
Propagate(step, exception) ==
    run_frame' = [run_frame EXCEPT !.pc = "raised",
                                   !.trace = Append(@, step),
                                   !.raised = exception,
                                   !.raised_by = step]

\* Step 1: audio_metadata_service.collect(audio_path).
RunCollect ==
    /\ run_frame.pc = "entered"
    /\ IF AudioFileExists(run_frame.audio_path)
       THEN /\ run_frame' =
                 [run_frame EXCEPT
                    !.pc = "collected",
                    !.trace = Append(@, "collect"),
                    !.audio_metadata =
                       << [ audio_id      |-> uuid_count + 1,
                            audio_path    |-> run_frame.audio_path,
                            sampling_rate |->
                               IF run_frame.audio_path = "/audio/a.wav"
                               THEN Present(16000) ELSE Absent,
                            duration      |->
                               IF run_frame.audio_path = "/audio/a.wav"
                               THEN Present(270) ELSE Absent ] >>]
            /\ uuid_count' = uuid_count + 1
       ELSE /\ Propagate("collect", "FileNotFoundError")
            /\ UNCHANGED uuid_count
    /\ UNCHANGED repo_vars
    /\ ControllerFrame

\* As RunTranscribe, but a failed transcription is caught and run() goes on
\* with an empty result.
RunTranscribe_SwallowsError ==
    /\ run_frame.pc = "collected"
    /\ \E failed \in BOOLEAN, segment_list \in RepoSegmentLists :
         /\ run_frame' =
              [run_frame EXCEPT
                 !.pc = "transcribed",
                 !.trace = Append(@, "transcribe"),
                 !.raised_by = IF failed THEN "transcribe" ELSE None,
                 !.asr_result =
                    << [ asr_id      |-> uuid_count + 1,
                         audio_id    |-> run_frame.audio_metadata[1].audio_id,
                         language    |-> "ja",
                         transcript  |-> "transcript",
                         segments    |-> IF failed THEN <<>> ELSE segment_list,
                         created_at  |-> Datetime(uuid_count + 1, None),
                         engine_name |-> "whisper",
                         model_name  |-> "base" ] >>]
         /\ uuid_count' = uuid_count + 1
    /\ UNCHANGED repo_vars
    /\ ControllerFrame

\* Step 2: asr_service.transcribe(audio_metadata, language).  The injected
\* service raises (ASRService itself raises NotImplementedError) or returns a
\* result.
RunTranscribe ==
    /\ run_frame.pc = "collected"
    /\ \/ /\ Propagate("transcribe", "NotImplementedError")
          /\ UNCHANGED uuid_count
       \/ \E segment_list \in RepoSegmentLists :
            /\ run_frame' =
                 [run_frame EXCEPT
                    !.pc = "transcribed",
                    !.trace = Append(@, "transcribe"),
                    !.asr_result =
                       << [ asr_id      |-> uuid_count + 1,
                            audio_id    |-> run_frame.audio_metadata[1].audio_id,
                            language    |-> "ja",
                            transcript  |-> "transcript",
                            segments    |-> segment_list,
                            created_at  |-> Datetime(uuid_count + 1, None),
                            engine_name |-> "whisper",
                            model_name  |-> "base" ] >>]
            /\ uuid_count' = uuid_count + 1
    /\ UNCHANGED repo_vars
    /\ ControllerFrame

\* Step 3: analysis_context_service.build(...).
RunBuild ==
    /\ run_frame.pc = "transcribed"
    /\ LET audio_metadata == run_frame.audio_metadata[1]
           asr_result     == run_frame.asr_result[1]
       IN  run_frame' =
              [run_frame EXCEPT
                 !.pc = "built",
                 !.trace = Append(@, "build"),
                 !.analysis_context =
                    << [ context_id      |-> uuid_count + 1,
                         audio_id        |-> audio_metadata.audio_id,
                         session_id      |-> "session_0",
                         speaker_id      |-> CallerSpeaker,
                         audio_path      |-> audio_metadata.audio_path,
                         asr_engine      |-> "placeholder",
                         asr_version     |-> None,
                         language        |-> asr_result.language,
                         sampling_rate   |-> audio_metadata.sampling_rate,
                         duration        |-> audio_metadata.duration,
                         utterance_units |-> <<>>,
                         created_at      |-> Datetime(uuid_count + 1, None),
                         status          |-> "CREATED" ] >>]
    /\ uuid_count' = uuid_count + 1
    /\ UNCHANGED repo_vars
    /\ ControllerFrame

\* Step 4: asr_result_structurer.structure(asr_result, speaker_id).
RunStructure ==
    /\ run_frame.pc = "built"
    /\ LET frame == structure(run_frame.asr_result[1].segments, uuid_count)
       IN  /\ IF frame.pc = "raised"
              THEN Propagate("structure", "ValidationError")
              ELSE run_frame' = [run_frame EXCEPT
                                   !.pc = "structured",
                                   !.trace = Append(@, "structure"),
                                   !.utterance_units = frame.returned]
           /\ uuid_count' = uuid_count + frame.uuids
    /\ UNCHANGED repo_vars
    /\ ControllerFrame

\* Step 5: Evidence(context=..., asr_result=..., utterance_units=...,
\* saved_at=datetime.now(timezone.utc), version="v1"); evidence_id is a uuid4.
RunAssemble ==
    /\ run_frame.pc = "structured"
    /\ run_frame' =
         [run_frame EXCEPT
            !.pc = "assembled",
            !.trace = Append(@, "assemble"),
            !.evidence =
               << [ evidence_id     |-> uuid_count + 1,
                    context         |-> run_frame.analysis_context[1],
                    asr_result      |-> run_frame.asr_result[1],
                    utterance_units |-> run_frame.utterance_units,
                    saved_at        |-> Datetime(uuid_count + 1, "UTC"),
                    version         |-> "v1" ] >>]
    /\ uuid_count' = uuid_count + 1
    /\ UNCHANGED repo_vars
    /\ ControllerFrame

\* Step 6: evidence_repository.save(evidence).  write_text may fail (IOError)
\* after it has opened the file: the file is then there, cut short.
RunSave ==
    /\ run_frame.pc = "assembled"
    /\ LET evidence  == run_frame.evidence[1]
           file_path == _get_file_path(evidence.evidence_id)
           written(content) ==
              [p \in DOMAIN files \cup {file_path} |->
                 IF p = file_path THEN content ELSE files[p]]
       IN  \/ /\ files' = written(model_dump_json(evidence))
              /\ saved' = [id \in DOMAIN saved \cup {evidence.evidence_id} |->
                             IF id = evidence.evidence_id THEN evidence
                             ELSE saved[id]]
              /\ first_saved' =
                    [id \in DOMAIN first_saved \cup {evidence.evidence_id} |->
                       IF id \in DOMAIN first_saved THEN first_saved[id]
                       ELSE evidence]
              /\ repo_result' = RepoResult("save", evidence.evidence_id, None, <<>>)
              /\ run_frame' = [run_frame EXCEPT !.pc = "saved",
                                                !.trace = Append(@, "save")]
           \/ /\ files' \in { files, written([json |-> "truncated"]) }
              /\ repo_result' =
                    RepoResult("save", evidence.evidence_id, "IOError", <<>>)
              /\ Propagate("save", "IOError")
              /\ UNCHANGED << saved, first_saved >>
    /\ UNCHANGED uuid_count
    /\ ControllerFrame

\* Step 7: return evidence.evidence_id.
RunReturn ==
    /\ run_frame.pc = "saved"
    /\ run_frame' = [run_frame EXCEPT
                       !.pc = "returned",
                       !.trace = Append(@, "return"),
                       !.returned = << run_frame.evidence[1].evidence_id >>]
    /\ UNCHANGED << uuid_count, repo_vars >>
    /\ ControllerFrame

\* The caller calls run() again once the call before has ended.
RunAgain ==
    /\ run_frame.pc \in {"returned", "raised"}
    /\ run_frame.runs < MaxRuns
    /\ \E audio_path \in AudioPaths :
          run_frame' = EnterRun(run_frame.runs + 1, audio_path)
    /\ UNCHANGED << uuid_count, repo_vars >>
    /\ ControllerFrame

NextController ==
    \/ RunCollect
    \/ RunTranscribe
    \/ RunBuild
    \/ RunStructure
    \/ RunAssemble
    \/ RunSave
    \/ RunReturn
    \/ RunAgain

SpecController == InitController /\ [][NextController]_vars

\* ================================================================== claims

\* The unit (its 1-based position in the list) a segment was folded into.
InUnit(position, unit) ==
    \E j \in 1..Len(folded[unit]) : folded[unit][j] = position

Done == pc = "done"

\* ---- C1
IndexesAreSequential(units) ==
    \A k \in 1..Len(units) : units[k].index_in_session = k - 1

\* C1: the returned units carry index_in_session 0, 1, ..., n-1 in list order;
\* the running index always equals the number of units built, so neither a
\* filler absorption nor an incomplete-ending merge consumes, skips or repeats
\* an index.
C1_IndexGapFree ==
    /\ IndexesAreSequential(utterance_units)
    /\ index = Len(utterance_units)
    /\ Done => IndexesAreSequential(returned)

\* Three segments returned as two units, the first one holding two segments
\* (by a merge or by an absorbed filler).
C1_Witness ==
    /\ Done
    /\ Len(segments) = 3
    /\ Len(returned) = 2
    /\ Len(folded[1]) = 2
    /\ returned[2].index_in_session = 1

\* ---- C2
\* C2: whatever the order of the input and whether or not segments overlap,
\* the start_time values of the returned units are non-decreasing.
C2_StartTimesNonDecreasing ==
    /\ \A k \in 1..Len(utterance_units) - 1 :
          utterance_units[k].start_time <= utterance_units[k + 1].start_time
    /\ Done => \A k \in 1..Len(returned) - 1 :
                  returned[k].start_time <= returned[k + 1].start_time

\* An input given in descending start order, with overlapping segments,
\* returned as several units.
C2_Witness ==
    /\ Done
    /\ Len(returned) >= 2
    /\ \E k \in 1..Len(asr_segments) - 1 :
          asr_segments[k].start_time > asr_segments[k + 1].start_time
    /\ \E k \in 1..Len(segments) - 1 :
          segments[k + 1].start_time < segments[k].end_time

\* ---- C3
PausesNonNegative(units) ==
    \A k \in 1..Len(units) :
        /\ units[k].pause_before >= 0
        /\ (k > 1 /\ units[k].start_time < units[k - 1].end_time)
              => units[k].pause_before = 0

\* C3: no unit has a negative pause_before; a unit that starts before the
\* previous unit ends has pause_before = 0.
C3_PauseNeverNegative ==
    /\ PausesNonNegative(utterance_units)
    /\ Done => PausesNonNegative(returned)

\* A returned unit that starts before its predecessor ends.
C3_Witness ==
    /\ Done
    /\ \E k \in 2..Len(returned) :
          /\ returned[k].start_time < returned[k - 1].end_time
          /\ returned[k].pause_before = 0

\* ---- C4
\* C4: for a non-empty input the first unit has pause_before = 0, wherever the
\* first segment starts and however the first unit was built.
C4_FirstPauseZero ==
    /\ utterance_units # <<>> => utterance_units[1].pause_before = 0
    /\ (Done /\ asr_segments # <<>>) =>
          (returned # <<>> /\ returned[1].pause_before = 0)

\* The first unit starts after time 0, was built by an incomplete-ending merge
\* and then took in a filler.
C4_Witness ==
    /\ Done
    /\ returned # <<>>
    /\ returned[1].start_time > 0
    /\ folded[1] = << 1, 2, 3 >>
    /\ _is_filler_only(segments[3].text)

\* ---- C5
\* The segment under the cursor is filler-only and a unit exists already.
FillerUnderCursor ==
    /\ pc = "loop"
    /\ i < Len(segments)
    /\ _is_filler_only(current_segment.text)
    /\ utterance_units # <<>>

\* C5: when the segment under the cursor is filler-only and a unit exists, the
\* step replaces the last unit by the filler merged into it (the code's
\* _merge_with_previous) and moves the cursor by one; the number of units and
\* the running index stay as they are and the walk goes on, whatever segment
\* follows the filler.
C5_FillerAbsorbStep ==
    [][ FillerUnderCursor =>
          /\ utterance_units' =
               [utterance_units EXCEPT
                  ![Len(utterance_units)] =
                      _merge_with_previous(last_unit, current_segment)]
          /\ Len(utterance_units') = Len(utterance_units)
          /\ i' = i + 1
          /\ index' = index
          /\ pc' = "loop" ]_vars

\* A filler has just been absorbed into the only unit although a further,
\* non-filler segment follows it.
C5_Witness ==
    /\ last_step = "filler"
    /\ Len(utterance_units) = 1
    /\ index = 1
    /\ i = 2
    /\ Len(segments) = 3
    /\ ~ _is_filler_only(segments[3].text)
    /\ utterance_units[1].text # segments[1].text

\* ---- C6
LeadingFiller ==
    /\ Done
    /\ segments # <<>>
    /\ _is_filler_only(segments[1].text)

\* C6 as stated: a filler-only first segment yields a unit at index 0 whose
\* text begins with the filler segment's text.
C6_LeadingFillerTextKept ==
    LeadingFiller =>
        /\ returned # <<>>
        /\ returned[1].index_in_session = 0
        /\ StartsWith(returned[1].text, segments[1].text)

\* C6, amended: a filler-only first segment is not dropped: the first unit, at
\* index 0, is built from it, and its text, leading whitespace aside, begins
\* with the filler's stripped text.  (Absorbing a further filler strips the
\* whole text, so leading whitespace of the first segment does not survive.)
C6_LeadingFillerKept ==
    LeadingFiller =>
        /\ returned # <<>>
        /\ returned[1].index_in_session = 0
        /\ folded[1][1] = 1
        /\ StartsWith(LStrip(returned[1].text), Strip(segments[1].text))

\* The first sorted segment is a filler behind whitespace and a second filler
\* was absorbed into its unit.
C6_Witness ==
    /\ LeadingFiller
    /\ segments[1].text # Strip(segments[1].text)
    /\ Len(folded[1]) >= 2
    /\ returned[1].start_time = segments[1].start_time

\* ---- C7
\* The segment under the cursor is not absorbed, and the incomplete-ending rule
\* applies to it and its successor.
MergeUnderCursor ==
    /\ pc = "loop"
    /\ i < Len(segments)
    /\ ~ (_is_filler_only(current_segment.text) /\ utterance_units # <<>>)
    /\ i + 1 < Len(segments)
    /\ ~ _is_filler_only(next_segment.text)
    /\ _has_incomplete_ending(current_segment.text)
    /\ next_segment.start_time - current_segment.end_time < 70

\* What C7 says of the step apart from the text of the new unit.
MergeStepShape ==
    /\ Len(utterance_units') = Len(utterance_units) + 1
    /\ SubSeq(utterance_units', 1, Len(utterance_units)) = utterance_units
    /\ utterance_units'[Len(utterance_units')].start_time = current_segment.start_time
    /\ utterance_units'[Len(utterance_units')].end_time = next_segment.end_time
    /\ utterance_units'[Len(utterance_units')].index_in_session = index
    /\ i' = i + 2
    /\ index' = index + 1

C8_NoMergeAtOrAboveThreshold ==
    Done =>
      \A k \in 1..Len(segments) - 1 :
        ( /\ ~ _is_filler_only(segments[k].text)
          /\ ~ _is_filler_only(segments[k + 1].text)
          /\ segments[k + 1].start_time - segments[k].end_time >= 70 )
        => /\ Len(folded) = Len(returned)
           /\ \E u, v \in 1..Len(returned) :
                /\ u # v
                /\ InUnit(k, u)
                /\ InUnit(k + 1, v)
           /\ ~ \E u \in 1..Len(returned) : InUnit(k, u) /\ InUnit(k + 1, u)

\* An incomplete-ending segment followed, exactly 0.7 s later, by a non-filler
\* segment; two units were returned.
C8_Witness ==
    /\ Done
    /\ Len(segments) = 2
    /\ _has_incomplete_ending(segments[1].text)
    /\ ~ _is_filler_only(segments[2].text)
    /\ segments[2].start_time - segments[1].end_time = 70
    /\ Len(returned) = 2

\* ---- C9
\* C9: the classifier answers for every non-negative gap, SHORT below 0.7 s,
\* NORMAL from 0.7 s to below 2.0 s, LONG from 2.0 s on; so 0.7 is NORMAL,
\* 2.0 is LONG, 0.69 is SHORT and 1.99 is NORMAL.
C9_ClassifierTiers ==
    pc = "classified" =>
        /\ pause_level \in {"SHORT", "NORMAL", "LONG"}
        /\ pause_level = "SHORT" <=> pause_duration < 70
        /\ pause_level = "NORMAL" <=> (70 <= pause_duration /\ pause_duration < 200)
        /\ pause_level = "LONG" <=> pause_duration >= 200
        /\ pause_duration = 69 => pause_level = "SHORT"
        /\ pause_duration = 70 => pause_level = "NORMAL"
        /\ pause_duration = 199 => pause_level = "NORMAL"
        /\ pause_duration = 200 => pause_level = "LONG"

\* The gap of exactly 2.0 s has been classified.
C9_Witness ==
    /\ pc = "classified"
    /\ pause_duration = 200
    /\ pause_level = "LONG"

\* ---- C10
DurationsMatch(units) ==
    \A k \in 1..Len(units) :
        units[k].duration = units[k].end_time - units[k].start_time

\* C10: every unit has duration = end_time - start_time, also after its span
\* was extended by an incomplete-ending merge or by absorbed fillers.
C10_DurationIsSpan ==
    /\ DurationsMatch(utterance_units)
    /\ Done => DurationsMatch(returned)

\* A unit built by a merge whose end was then moved by an absorbed filler.
C10_Witness ==
    /\ Done
    /\ Len(returned) = 1
    /\ folded[1] = << 1, 2, 3 >>
    /\ returned[1].end_time > segments[2].end_time
    /\ returned[1].duration > 0

\* ---- C11
\* Every sorted segment lies in some returned unit.
CoversInput ==
    /\ Len(segments) = Len(asr_segments)
    /\ Len(folded) = Len(returned)
    /\ \A p \in 1..Len(segments) : \E u \in 1..Len(returned) : InUnit(p, u)

\* C11: no call ends in an exception, whatever the timing of the segments
\* (overlaps, end < start); the returned list covers the whole input, every
\* pause_before is clamped at zero, and a unit built from one segment with
\* end < start carries that negative duration unchanged.
C11_NeverRaisesOnTiming ==
    /\ pc # "raised"
    /\ Done =>
         /\ CoversInput
         /\ \A u \in 1..Len(returned) :
              /\ returned[u].pause_before >= 0
              /\ Len(folded[u]) = 1 =>
                    returned[u].duration =
                       segments[folded[u][1]].end_time
                         - segments[folded[u][1]].start_time

\* Three units were returned, one of negative duration (its segment ends
\* before it starts) and one that starts before its predecessor ends.
C11_Witness ==
    /\ Done
    /\ Len(returned) = 3
    /\ \E u \in 1..Len(returned) : returned[u].duration < 0
    /\ \E u \in 2..Len(returned) :
          /\ returned[u].start_time < returned[u - 1].end_time
          /\ returned[u].pause_before = 0

\* ---- C12
\* C12: structure() terminates.  len(segments) - i is never negative and every
\* loop iteration lowers it, by two for an incomplete-ending merge and by one
\* otherwise; an iteration either raises or goes on, and with the cursor at
\* the end the call returns.  So the iterations never outnumber the cursor,
\* hence len(segments).
C12_Terminates ==
    /\ [][ pc = "loop" =>
             IF i < Len(segments)
             THEN /\ iterations' = iterations + 1
                  /\ \/ pc' = "raised" /\ i' = i
                     \/ /\ pc' = "loop"
                        /\ i' <= Len(segments)
                        /\ iterations' <= i'
                        /\ IF last_step' = "merge" THEN i' = i + 2 ELSE i' = i + 1
             ELSE pc' = "done" /\ iterations' = iterations ]_vars
    /\ [](pc \in {"loop", "done"} =>
             /\ iterations <= i
             /\ i <= Len(segments)
             /\ iterations <= Len(segments))

\* A walk over three segments that ended after two iterations, one of them a
\* merge.
C12_Witness ==
    /\ Done
    /\ Len(segments) = 3
    /\ i = 3
    /\ iterations = 2
    /\ Len(returned) = 2

\* ---- C13
\* C13: called with an empty segment list, structure() returns the empty list
\* and raises nothing; no unit is ever built.
C13_EmptyInEmptyOut ==
    (pc # "input" /\ asr_segments = <<>>) =>
        /\ Done
        /\ returned = <<>>
        /\ utterance_units = <<>>
        /\ uuid_count = 0

\* The call on the empty list has returned.
C13_Witness ==
    /\ Done
    /\ asr_segments = <<>>
    /\ last_step = "empty"
    /\ returned = <<>>

\* ---- C16
\* C16: a filler-only segment is never the second half of an incomplete-ending
\* merge; a filler that directly follows an incomplete-ending segment ends up,
\* absorbed, in the one unit that holds that segment and in no other.
C16_FillerAfterIncompleteEnding ==
    /\ last_step = "merge" => ~ _is_filler_only(segments[i].text)
    /\ Done =>
         \A k \in 1..Len(segments) - 1 :
            ( /\ _has_incomplete_ending(segments[k].text)
              /\ _is_filler_only(segments[k + 1].text) )
            => \E u \in 1..Len(returned) :
                 /\ InUnit(k, u)
                 /\ InUnit(k + 1, u)
                 /\ folded[u][1] # k + 1
                 /\ \A v \in 1..Len(returned) : InUnit(k + 1, v) => v = u

\* The three-segment case: incomplete ending, filler, ordinary segment, all
\* within a short pause of the first; the filler went into the first unit and
\* the ordinary segment made its own.
C16_Witness ==
    /\ Done
    /\ Len(segments) = 3
    /\ _has_incomplete_ending(segments[1].text)
    /\ _is_filler_only(segments[2].text)
    /\ ~ _is_filler_only(segments[3].text)
    /\ segments[2].start_time - segments[1].end_time < 70
    /\ segments[3].start_time - segments[1].end_time < 70
    /\ folded = << << 1, 2 >>, << 3 >> >>

\* ---- C17
MergedText == utterance_units'[Len(utterance_units')].text

\* C17: the merged text is trim(a.text), one space, trim(b.text), trimmed
\* again: both operands are trimmed before they are joined, so exactly one
\* space separates the two parts.
C17_MergeTextOperandsTrimmed ==
    [][ MergeUnderCursor =>
          MergedText = Strip(JoinWithSpace(Strip(current_segment.text),
                                           Strip(next_segment.text))) ]_vars

\* ---- C18
AbsorbedText == utterance_units'[Len(utterance_units')].text

\* C18: the text after absorption is trim(unit.text), one space,
\* trim(filler.text): the filler is appended in trimmed form.
C18_AbsorbTextOperandsTrimmed ==
    [][ FillerUnderCursor =>
          AbsorbedText = JoinWithSpace(Strip(last_unit.text),
                                       Strip(current_segment.text)) ]_vars

\* ---- C19
\* C19: a filler absorption leaves utterance_id, speaker_id, start_time,
\* pause_before, pause_level, index_in_session and confidence of the unit as
\* they were, and every other unit untouched; end_time becomes the larger of
\* the unit's and the filler's end, so it never decreases, and duration
\* follows it.
C19_AbsorbFrame ==
    [][ FillerUnderCursor =>
          LET old == last_unit
              new == utterance_units'[Len(utterance_units')]
          IN  /\ Len(utterance_units') = Len(utterance_units)
              /\ \A k \in 1..Len(utterance_units) - 1 :
                    utterance_units'[k] = utterance_units[k]
              /\ new.utterance_id = old.utterance_id
              /\ new.speaker_id = old.speaker_id
              /\ new.start_time = old.start_time
              /\ new.pause_before = old.pause_before
              /\ new.pause_level = old.pause_level
              /\ new.index_in_session = old.index_in_session
              /\ new.confidence = old.confidence
              /\ new.end_time = Max(old.end_time, current_segment.end_time)
              /\ new.end_time >= old.end_time
              /\ new.duration = new.end_time - new.start_time ]_vars

\* A filler that ends before the unit does has just been absorbed into the
\* second unit, whose pause_before is not zero.
C19_Witness ==
    /\ last_step = "filler"
    /\ Len(utterance_units) = 2
    /\ segments[i].end_time < utterance_units[2].end_time
    /\ utterance_units[2].pause_before > 0
    /\ utterance_units[2].text # segments[i - 1].text

\* ---- C20
\* C20: a unit is created from one segment or from two, and a merge never
\* chains: the segments of a unit are consecutive, a unit starts right behind
\* the last segment of the unit before it (the second segment of a merged pair
\* never starts a unit of its own), and whatever a unit holds beyond its
\* second segment is an absorbed filler.
C20_OneOrTwoSegments ==
    /\ Len(folded) = Len(utterance_units)
    /\ \A u \in 1..Len(folded) :
         /\ Len(folded[u]) >= 1
         /\ folded[u][1] = IF u = 1 THEN 1
                           ELSE folded[u - 1][Len(folded[u - 1])] + 1
         /\ \A j \in 2..Len(folded[u]) : folded[u][j] = folded[u][j - 1] + 1
         /\ \A j \in 3..Len(folded[u]) :
               _is_filler_only(segments[folded[u][j]].text)

\* Three non-filler segments a short pause apart, the first two with an
\* incomplete ending: the first two were merged and the third stands alone,
\* although the second has an incomplete ending too.
C20_Witness ==
    /\ Done
    /\ Len(segments) = 3
    /\ \A k \in 1..3 : ~ _is_filler_only(segments[k].text)
    /\ _has_incomplete_ending(segments[1].text)
    /\ _has_incomplete_ending(segments[2].text)
    /\ segments[3].start_time - segments[2].end_time < 70
    /\ folded = << << 1, 2 >>, << 3 >> >>
    /\ Len(returned) = 2

\* ---- C15
\* A unit list with the generated ids left out.
EraseIds(units) == [k \in 1..Len(units) |-> [units[k] EXCEPT !.utterance_id = 0]]

\* C15: under every interleaving of two calls of structure(), a call that has
\* ended has ended as it ends when run alone: it raised if and only if it
\* raises alone, and otherwise returned the same units up to their ids; at
\* every moment each caller's list is the list that was passed, and no id was
\* handed out twice.
C15_ConcurrentCallsIndependent ==
    pc = "concurrent" =>
      \A c \in Calls :
         LET alone == structure(given[c], 0)
         IN  /\ calls[c].asr_segments = given[c]
             /\ calls[c].pc \in {"done", "raised"} =>
                  /\ calls[c].pc = alone.pc
                  /\ EraseIds(calls[c].returned) = EraseIds(alone.returned)
                  /\ \A d \in Calls \ {c} :
                       \A k \in 1..Len(calls[c].returned),
                          m \in 1..Len(calls[d].utterance_units) :
                            calls[c].returned[k].utterance_id
                               # calls[d].utterance_units[m].utterance_id

\* Both calls have returned after their steps alternated; the first merged its
\* two segments, the second absorbed a filler, and the ids show that the
\* second made its unit before the first did.
C15_Witness ==
    /\ pc = "concurrent"
    /\ calls[1].pc = "done" /\ calls[2].pc = "done"
    /\ Len(given[1]) = 2 /\ Len(calls[1].returned) = 1
    /\ Len(given[2]) = 2 /\ Len(calls[2].returned) = 1
    /\ _has_incomplete_ending(given[1][1].text)
    /\ _is_filler_only(given[2][2].text)
    /\ given[1] # given[2]
    /\ calls[2].returned[1].utterance_id < calls[1].returned[1].utterance_id

\* ---- C14
\* C14: once a record has been saved, load of its id returns a record equal
\* to it in every field (id, context, ASR snapshot, the units in their order),
\* and exists of its id is true.
C14_SaveLoadRoundTrip ==
    /\ \A id \in DOMAIN saved :
          /\ _get_file_path(id) \in DOMAIN files
          /\ model_validate_json(files[_get_file_path(id)]) = Ok(saved[id])
    /\ ( repo_result.op = "load" /\ repo_result.evidence_id \in DOMAIN saved )
       => /\ repo_result.raised = None
          /\ repo_result.returned = << saved[repo_result.evidence_id] >>
    /\ ( repo_result.op = "exists" /\ repo_result.evidence_id \in DOMAIN saved )
       => repo_result.returned = << TRUE >>

\* Two records are stored, and the one just loaded has a unit merged from two
\* segments and a context with no sampling rate; the other record differs.
C14_Witness ==
    /\ repo_result.op = "load"
    /\ DOMAIN saved = EvidenceIds
    /\ repo_result.raised = None
    /\ LET loaded == repo_result.returned[1]
       IN  /\ loaded = saved[repo_result.evidence_id]
           /\ Len(loaded.asr_result.segments) = 2
           /\ Len(loaded.utterance_units) = 1
           /\ loaded.context.sampling_rate = Absent
           /\ \E other \in EvidenceIds :
                 saved[other].utterance_units # loaded.utterance_units

\* ---- C21
\* C21: the sort is stable and does not fail: the sorted copy holds each input
\* segment once, in ascending start_time, and segments with equal start_time
\* in the order the caller's list had them (segment_id numbers that order).
C21_SortIsStable ==
    /\ pc # "raised"
    /\ pc \in {"loop", "done"} =>
         /\ Len(segments) = Len(asr_segments)
         /\ \A a \in 1..Len(segments) :
               segments[a] = asr_segments[segments[a].segment_id + 1]
         /\ \A a, b \in 1..Len(segments) :
               a < b =>
                 /\ segments[a].start_time <= segments[b].start_time
                 /\ segments[a].start_time = segments[b].start_time
                      => segments[a].segment_id < segments[b].segment_id

\* The caller's first and third segment start together, behind the second;
\* the first is an ordinary text and the third a filler.  Sorted, the first
\* comes before the third, so the filler was absorbed into the first's unit.
C21_Witness ==
    /\ Done
    /\ Len(asr_segments) = 3
    /\ asr_segments[1].start_time = asr_segments[3].start_time
    /\ asr_segments[2].start_time < asr_segments[1].start_time
    /\ ~ _is_filler_only(asr_segments[1].text)
    /\ _is_filler_only(asr_segments[3].text)
    /\ segments = << asr_segments[2], asr_segments[1], asr_segments[3] >>
    /\ folded[Len(folded)] = << 2, 3 >>

\* ---- C22
\* C22: a stored record is never modified: after any sequence of save, load
\* and exists, the file of an evidence_id holds what was first saved under
\* that id.
C22_StoredRecordNeverModified ==
    \A id \in DOMAIN first_saved :
       /\ _get_file_path(id) \in DOMAIN files
       /\ files[_get_file_path(id)] = model_dump_json(first_saved[id])

\* ---- C23
IsPrefix(t, full) ==
    /\ Len(t) <= Len(full)
    /\ \A k \in 1..Len(t) : t[k] = full[k]

\* C23: run() takes its steps in the order collect, transcribe, build,
\* structure, assemble, save, return.  A step that raises ends the call with
\* that exception and nothing returned; before the save step is reached the
\* files are as they were when run() was entered; and a call that returns
\* hands back the evidence_id of the record it assembled from the results of
\* its own steps, which is then the content of that id's file, a file that
\* was not there before, next to the files that were.
C23_RunStepsInOrder ==
    pc = "controller" =>
      /\ IsPrefix(run_frame.trace, RunOrder)
      /\ run_frame.raised_by # None <=> run_frame.pc = "raised"
      /\ run_frame.pc = "raised" =>
            /\ run_frame.returned = <<>>
            /\ run_frame.raised # None
            /\ run_frame.raised_by = run_frame.trace[Len(run_frame.trace)]
      /\ Len(run_frame.trace) < 6 => files = run_frame.files_before
      /\ run_frame.pc # "returned" => run_frame.returned = <<>>
      /\ run_frame.pc = "returned" =>
            LET evidence  == run_frame.evidence[1]
                file_path == _get_file_path(evidence.evidence_id)
            IN  /\ run_frame.trace = RunOrder
                /\ run_frame.returned = << evidence.evidence_id >>
                /\ evidence.context = run_frame.analysis_context[1]
                /\ evidence.asr_result = run_frame.asr_result[1]
                /\ evidence.utterance_units = run_frame.utterance_units
                /\ EraseIds(evidence.utterance_units) =
                      EraseIds(structure(evidence.asr_result.segments, 0).returned)
                /\ evidence.context.audio_path = run_frame.audio_path
                /\ file_path \in DOMAIN files
                /\ files[file_path] = model_dump_json(evidence)
                /\ file_path \notin DOMAIN run_frame.files_before
                /\ \A p \in DOMAIN run_frame.files_before :
                      files[p] = run_frame.files_before[p]

\* The second call of run() has returned, after a first call that returned
\* too: two files are there, the second holding a record whose two segments
\* were merged into one unit.
C23_Witness ==
    /\ pc = "controller"
    /\ run_frame.runs = 2
    /\ run_frame.pc = "returned"
    /\ Cardinality(DOMAIN run_frame.files_before) = 1
    /\ Cardinality(DOMAIN files) = 2
    /\ Len(run_frame.evidence[1].asr_result.segments) = 2
    /\ Len(run_frame.evidence[1].utterance_units) = 1
    /\ Len(run_frame.evidence[1].utterance_units[1].text) = 4
    /\ files[_get_file_path(run_frame.returned[1])] =
          model_dump_json(run_frame.evidence[1])

\* ---- C24
\* C24: every unit behind the first has pause_before = max(0, its start minus
\* the end of the unit before it), and that end is the one the unit before has
\* after all its filler absorptions: it is not below the end of any segment
\* folded in behind the unit's first one. A unit is extended only while it is
\* the last one, so the pause is never measured from a stale end.
C24_PauseFromFinalEnd ==
    /\ Len(folded) = Len(utterance_units)
    /\ \A k \in 2..Len(utterance_units) :
         /\ utterance_units[k].pause_before =
               Max(0, utterance_units[k].start_time - utterance_units[k - 1].end_time)
         /\ \A j \in 2..Len(folded[k - 1]) :
               utterance_units[k - 1].end_time >= segments[folded[k - 1][j]].end_time
    /\ Done => returned = utterance_units

\* Two units were returned, the first of which absorbed a filler that ends
\* later than it did: the second unit's pause is counted from the filler's end
\* and differs from the pause counted from the first unit's first end.
C24_Witness ==
    /\ Done
    /\ Len(returned) = 2
    /\ folded = << << 1, 2 >>, << 3 >> >>
    /\ _is_filler_only(segments[2].text)
    /\ segments[2].end_time > segments[1].end_time
    /\ returned[1].end_time = segments[2].end_time
    /\ returned[2].pause_before = segments[3].start_time - segments[2].end_time
    /\ returned[2].pause_before > 0
    /\ returned[2].pause_before # segments[3].start_time - segments[1].end_time

\* ---- C25
\* The positions folded into the units, concatenated in unit order.
RECURSIVE Flatten(_)
Flatten(lists) ==
    IF lists = <<>> THEN <<>>
    ELSE Flatten(SubSeq(lists, 1, Len(lists) - 1)) \o lists[Len(lists)]

\* The text of a unit made of the segments at `positions`: the first text as
\* it stands, every further text joined on with one space and the result
\* stripped.
RECURSIVE TextOf(_)
TextOf(positions) ==
    IF Len(positions) = 1 THEN segments[positions[1]].text
    ELSE Strip(JoinWithSpace(TextOf(SubSeq(positions, 1, Len(positions) - 1)),
                             segments[positions[Len(positions)]].text))

\* C25: no segment is lost or duplicated. The segments folded into the units,
\* concatenated in unit order, are exactly the segments walked so far, in the
\* order of the start-sorted list; at the return they are all of them, the
\* sorted list holds the input's segments, and every unit's text is made of
\* the texts of its segments in that order.
C25_NoSegmentLostOrDuplicated ==
    pc \in {"loop", "done"} =>
       /\ Flatten(folded) = [k \in 1..i |-> k]
       /\ segments = SortedByStart(asr_segments)
       /\ Len(segments) = Len(asr_segments)
       /\ \A u \in 1..Len(utterance_units) :
             utterance_units[u].text = TextOf(folded[u])
       /\ Done => /\ i = Len(segments)
                  /\ returned = utterance_units

\* Three segments given out of start order were returned as two units: a
\* merged pair and a single segment, each segment in exactly one unit.
C25_Witness ==
    /\ Done
    /\ Len(asr_segments) = 3
    /\ asr_segments # segments
    /\ folded = << << 1, 2 >>, << 3 >> >>
    /\ ~ _is_filler_only(segments[2].text)
    /\ Len(returned) = 2
    /\ returned[1].text = Strip(JoinWithSpace(segments[1].text, segments[2].text))
    /\ returned[2].text = segments[3].text

\* ---- C26
\* The segment at place j of unit u.
FoldedSegment(u, j) == segments[folded[u][j]]

\* Unit u was made by an incomplete-ending merge: its second segment is not
\* an absorbed filler.
MadeByMerge(u) ==
    /\ Len(folded[u]) >= 2
    /\ ~ _is_filler_only(FoldedSegment(u, 2).text)

\* C26 as stated: every unit's span covers every segment folded into it, its
\* start not behind the segment's start and its end not before the segment's
\* end, for any input.
C26_SpanCoversFoldedSegments ==
    /\ Len(folded) = Len(utterance_units)
    /\ \A u \in 1..Len(utterance_units) :
         \A j \in 1..Len(folded[u]) :
            /\ utterance_units[u].start_time <= FoldedSegment(u, j).start_time
            /\ utterance_units[u].end_time >= FoldedSegment(u, j).end_time

\* C26, amended: every unit starts no later than any segment folded into it,
\* and ends no earlier than its merged second segment and every absorbed
\* filler. It ends no earlier than its first segment too, unless it was made by
\* an incomplete-ending merge whose first segment ends after the second one:
\* the merged span ends where the second segment ends.
C26_SpanCoverage ==
    /\ Len(folded) = Len(utterance_units)
    /\ \A u \in 1..Len(utterance_units) :
         /\ \A j \in 1..Len(folded[u]) :
               utterance_units[u].start_time <= FoldedSegment(u, j).start_time
         /\ \A j \in 2..Len(folded[u]) :
               utterance_units[u].end_time >= FoldedSegment(u, j).end_time
         /\ (MadeByMerge(u) =>
                FoldedSegment(u, 1).end_time <= FoldedSegment(u, 2).end_time)
               => utterance_units[u].end_time >= FoldedSegment(u, 1).end_time
         /\ Len(folded[u]) = 2 /\ MadeByMerge(u)
               => utterance_units[u].end_time = FoldedSegment(u, 2).end_time
    /\ Done => returned = utterance_units

\* A pair of well-formed segments was merged whose second segment lies inside
\* the first, and a filler was absorbed behind it: the returned unit ends
\* before its first segment does.
C26_Witness ==
    /\ Done
    /\ Len(returned) = 1
    /\ folded = << << 1, 2, 3 >> >>
    /\ MadeByMerge(1)
    /\ \A k \in 1..3 : segments[k].start_time <= segments[k].end_time
    /\ segments[1].start_time <= segments[2].start_time
    /\ segments[2].end_time < segments[1].end_time
    /\ returned[1].end_time < segments[1].end_time
    /\ returned[1].end_time >= segments[3].end_time

\* ---- C27
\* C27: every unit's pause_level is the classification of its own
\* pause_before, SHORT below 0.7 s, NORMAL from 0.7 s to below 2.0 s, LONG from
\* 2.0 s on; the two fields never disagree, also after a filler absorption.
C27_PauseLevelMatchesPause ==
    /\ \A k \in 1..Len(utterance_units) :
         LET unit == utterance_units[k]
         IN  /\ unit.pause_level = _classify_pause_level(unit.pause_before)
             /\ unit.pause_level = "SHORT" <=> unit.pause_before < 70
             /\ unit.pause_level = "NORMAL" <=>
                   (70 <= unit.pause_before /\ unit.pause_before < 200)
             /\ unit.pause_level = "LONG" <=> unit.pause_before >= 200
    /\ Done => returned = utterance_units

\* Two units were returned, the second behind a pause of exactly 2.0 s and so
\* LONG; it absorbed a filler that starts right at its own end.
C27_Witness ==
    /\ Done
    /\ Len(returned) = 2
    /\ folded = << << 1 >>, << 2, 3 >> >>
    /\ _is_filler_only(segments[3].text)
    /\ returned[2].pause_before = 200
    /\ returned[2].pause_level = "LONG"
    /\ segments[3].start_time - segments[2].end_time = 0

====
